---- MODULE Spec2Model ----
(***************************************************************************)
(* Model of taskmgr.py (class TaskManager): the status-extraction pass     *)
(* (render_panel_view / render_inspect_view -> group_panel_view, with      *)
(* match_file), and the commands that edit the stored groups (add, rm,     *)
(* delete, rename, arrange, config).                                       *)
(*                                                                         *)
(* Abstractions, all stated here:                                          *)
(*  - a character string used as an identity is a sequence of character    *)
(*    codes, so that sorted() is a real lexicographic sort;                *)
(*  - a regular expression is a word; a log text is a sequence of tokens   *)
(*    [key, val]; the expression matches a token when the word equals the  *)
(*    token's key ignoring case, and the matched text is the token's val;  *)
(*  - timestamps are integers counted in ticks, TicksPerSec ticks to the   *)
(*    second (time.time() and os.path.getmtime() return fractions);        *)
(*  - os.walk of a root path yields the files listed for that root in      *)
(*    disk, each with its path as a string of character codes;             *)
(*  - parse.parse (the library match_file calls) is modelled by what it    *)
(*    compiles a format to: literals matched ignoring case, each field a   *)
(*    non-greedy run of one or more characters, anchored at both ends.     *)
(***************************************************************************)
EXTENDS Integers, Sequences, FiniteSets, TLC

VARIABLES
    cfg,              \* self.cfg: activated_groups / deactivated_groups
    disk,             \* the file system: root path -> files found under it
    now,              \* time.time(), in ticks
    call,             \* the public method invoked and its arguments
    pc,               \* position in the pass
    err,              \* the exception that ended the pass ("" if none)
    tagq,             \* render_panel_view: tags still to visit
    tag,              \* group_panel_view: tag
    logs,             \* group_panel_view: logs
    keys,             \* identities of sorted(logs.keys()) still to visit
    one,              \* group_panel_view: one
    fns,              \* group_panel_view: fns
    delta,            \* group_panel_view: delta
    patterns,         \* group_panel_view: patterns
    found,            \* group_panel_view: found
    remain,           \* group_panel_view: remain
    ptr,              \* group_panel_view: ptr
    reads,            \* files opened (line 367) for the identity `one`
    recs,             \* group_panel_view: recs
    ret_str_ongoing,  \* render_*_view: ret_str_ongoing
    ret_str_ended     \* render_*_view: ret_str_ended

cfgVars  == <<cfg>>
envVars  == <<disk, now, call>>
passVars == <<pc, err, tagq, tag, logs, keys, one, fns, delta, patterns,
              found, remain, ptr, reads, recs, ret_str_ongoing, ret_str_ended>>
vars     == <<cfg, disk, now, call, pc, err, tagq, tag, logs, keys, one, fns,
              delta, patterns, found, remain, ptr, reads, recs,
              ret_str_ongoing, ret_str_ended>>

----------------------------------------------------------------------------
(* Bounds of the model *)

MaxFiles    == 2     \* files under one root path
MaxTokens   == 2     \* tokens in one log text
MaxPatterns == 2     \* user patterns of a group
TicksPerSec == 2     \* clock resolution
MaxPathLen  == 4     \* characters of a file path given to match_file
MaxPaths    == 1     \* stored paths of a group

(* Program constants *)

DaySecs == 86400

----------------------------------------------------------------------------
(* Helpers: sequences, sets, ordering *)

Range(s) == {s[i] : i \in 1..Len(s)}

SeqsUpTo(S, n) == UNION {[1..k -> S] : k \in 0..n}

Last(s) == s[Len(s)]

Min(S) == CHOOSE x \in S : \A y \in S : x <= y

\* int(x / d) for integer x and d > 0: Python's int() truncates toward zero
Trunc(x, d) == IF x >= 0 THEN x \div d ELSE -((-x) \div d)

\* str.__lt__ on sequences of character codes
RECURSIVE StrLess(_, _)
StrLess(a, b) ==
    IF b = <<>> THEN FALSE
    ELSE IF a = <<>> THEN TRUE
    ELSE IF Head(a) # Head(b) THEN Head(a) < Head(b)
    ELSE StrLess(Tail(a), Tail(b))

\* insert x into the ascending sequence s, after the elements not greater
RECURSIVE InsertAsc(_, _)
InsertAsc(x, s) ==
    IF s = <<>> THEN <<x>>
    ELSE IF StrLess(x, Head(s)) THEN <<x>> \o s
    ELSE <<Head(s)>> \o InsertAsc(x, Tail(s))

\* sorted(S) for a set S of strings
RECURSIVE SortedNames(_)
SortedNames(S) ==
    IF S = {} THEN <<>>
    ELSE LET x == CHOOSE y \in S : TRUE
         IN InsertAsc(x, SortedNames(S \ {x}))

----------------------------------------------------------------------------
(* Strings of character codes, and match_file *)

\* ord() of the characters the model writes
Ord(c) ==
    CASE c = "." -> 46  [] c = "/" -> 47  [] c = "L" -> 76
      [] c = "a" -> 97  [] c = "e" -> 101 [] c = "l" -> 108
      [] c = "m" -> 109 [] c = "n" -> 110 [] c = "t" -> 116
      [] c = "x" -> 120 [] c = "{" -> 123 [] c = "}" -> 125

\* the string spelled by a tuple of one-character strings
Str(t) == [i \in 1..Len(t) |-> Ord(t[i])]

LBrace == Ord("{")
RBrace == Ord("}")

\* s[::-1]
Reverse(s) == [i \in 1..Len(s) |-> s[Len(s) + 1 - i]]

\* re.IGNORECASE on one character: an upper-case ASCII letter as lower case
FoldChar(c) == IF c >= 65 /\ c <= 90 THEN c + 32 ELSE c

\* \w of the format grammar: here the ASCII letters
IsWordChar(c) == FoldChar(c) >= 97 /\ FoldChar(c) <= 122

\* line 326: .replace('{', '!|*#').replace('}', '{').replace('!|*#', '}'),
\* for a template that does not itself contain the text '!|*#'
swap_braces(s) ==
    [i \in 1..Len(s) |->
        IF s[i] = LBrace THEN RBrace
        ELSE IF s[i] = RBrace THEN LBrace
        ELSE s[i]]

Lit(c) == [kind |-> "lit", c |-> c, name |-> <<>>]
Field(n) == [kind |-> "field", c |-> 0, name |-> n]

\* the format split at '{{', '}}' and '{' word characters '}': a field for
\* each of the last, a literal character for everything else
RECURSIVE format_items(_, _)
format_items(f, i) ==
    IF i > Len(f) THEN <<>>
    ELSE IF i < Len(f) /\ f[i] = LBrace /\ f[i + 1] = LBrace
    THEN <<Lit(LBrace)>> \o format_items(f, i + 2)
    ELSE IF i < Len(f) /\ f[i] = RBrace /\ f[i + 1] = RBrace
    THEN <<Lit(RBrace)>> \o format_items(f, i + 2)
    ELSE LET closes == {j \in i + 1..Len(f) :
                           /\ f[j] = RBrace
                           /\ \A k \in i + 1..j - 1 : IsWordChar(f[k])}
         IN IF f[i] = LBrace /\ closes # {}
            THEN <<Field(SubSeq(f, i + 1, Min(closes) - 1))>>
                     \o format_items(f, Min(closes) + 1)
            ELSE <<Lit(f[i])>> \o format_items(f, i + 1)

NoMatch == [ok |-> FALSE, named |-> <<>>]

\* the match of the compiled expression against all of s: a literal takes
\* one equal character ignoring case, a field the shortest run of one or
\* more characters after which the rest matches; named maps each field name
\* to the text it took
RECURSIVE re_match(_, _)
re_match(items, s) ==
    IF items = <<>> THEN [ok |-> s = <<>>, named |-> <<>>]
    ELSE IF Head(items).kind = "lit"
    THEN IF s # <<>> /\ FoldChar(Head(s)) = FoldChar(Head(items).c)
         THEN re_match(Tail(items), Tail(s))
         ELSE NoMatch
    ELSE LET ks == {k \in 1..Len(s) :
                       re_match(Tail(items), SubSeq(s, k + 1, Len(s))).ok}
         IN IF ks = {} THEN NoMatch
            ELSE LET r == re_match(Tail(items), SubSeq(s, Min(ks) + 1, Len(s)))
                 IN [ok |-> TRUE,
                     named |-> r.named @@
                               (Head(items).name :> SubSeq(s, 1, Min(ks)))]

\* a parse that looks for the format anywhere from some position of the
\* string on (used to test the claims)
parse_search(format, string) ==
    LET ks == {k \in 1..Len(string) :
                  re_match(format_items(format, 1), SubSeq(string, k, Len(string))).ok}
    IN IF ks = {} THEN NoMatch
       ELSE re_match(format_items(format, 1), SubSeq(string, Min(ks), Len(string)))

\* parse.parse(format, string): a Result (truthy) with its named fields, or
\* None
parse(format, string) == re_match(format_items(format, 1), string)

Eman == Reverse(Str(<<"n", "a", "m", "e">>))

\* a match_file that returns the captured text without reversing it back
\* (used to test the claims)
match_file_unreversed(fnp, fn) ==
    LET res == parse(swap_braces(Reverse(fnp)), Reverse(fn))
    IN IF res.ok
       THEN IF Eman \in DOMAIN res.named
            THEN [raised |-> FALSE, ok |-> TRUE, name |-> res.named[Eman]]
            ELSE [raised |-> TRUE, ok |-> FALSE, name |-> <<>>]
       ELSE [raised |-> FALSE, ok |-> FALSE, name |-> <<>>]

\* match_file(fnp, fn), lines 325-331: raised is the KeyError of
\* res['eman'] on a Result that has no field of that name
match_file(fnp, fn) ==
    LET fn_reversed == Reverse(fn)
        fnp_reversed == swap_braces(Reverse(fnp))
        res == parse(fnp_reversed, fn_reversed)
    IN IF res.ok
       THEN IF Eman \in DOMAIN res.named
            THEN [raised |-> FALSE, ok |-> TRUE, name |-> Reverse(res.named[Eman])]
            ELSE [raised |-> TRUE, ok |-> FALSE, name |-> <<>>]
       ELSE [raised |-> FALSE, ok |-> FALSE, name |-> <<>>]

\* the default template '{name}.{ext}'
DefaultFnp == Str(<<"{", "n", "a", "m", "e", "}", ".", "{", "e", "x", "t", "}">>)

----------------------------------------------------------------------------
(* Data *)

\* identities and tags: strings as sequences of character codes
NameA  == <<1>>
NameAA == <<1, 1>>
NameB  == <<2>>
NoName == <<>>          \* the empty string: no identity

TagG == <<7>>
TagH == <<8>>
TagU == <<9>>

\* the builtin patterns of group_panel_view, each named by the word it finds
EpochRe == "epoch"
IterRe  == "iter"
LossRe  == "loss"
EtaRe   == "eta"

\* init_config()
init_config == [activated_groups |-> <<>>, deactivated_groups |-> <<>>]

\* default_group()
default_group ==
    [fnp |-> DefaultFnp, ending |-> "done", builtin_func |-> TRUE,
     paths |-> <<>>, patterns |-> <<>>, excluded |-> <<>>, included |-> <<>>]

\* an optional argument: None, or a value
None == [set |-> FALSE, v |-> 0]
Some(x) == [set |-> TRUE, v |-> x]

\* a value of the dict found: the scan index (an int) for the termination
\* pattern, the matched text (a str) for the others
IdxVal(k)  == [idx |-> k, text |-> <<>>]
TextVal(t) == [idx |-> -1, text |-> t]

----------------------------------------------------------------------------
(* Pure parts of group_panel_view *)

\* re.IGNORECASE: case folding of the words the model uses
Lower(w) == IF w = "DONE" THEN "done" ELSE w

\* re.compile(pattern, re.IGNORECASE).findall(text)
findall(pattern, text) ==
    LET hit(i) == Lower(text[i].key) = Lower(pattern)
        RECURSIVE Collect(_)
        Collect(i) == IF i > Len(text) THEN <<>>
                      ELSE IF hit(i) THEN <<text[i].val>> \o Collect(i + 1)
                      ELSE Collect(i + 1)
    IN Collect(1)

\* the files os.walk yields for the group's paths, in order
RECURSIVE walk(_, _)
walk(paths, d) ==
    IF paths = <<>> THEN <<>> ELSE d[Head(paths)] \o walk(Tail(paths), d)

\* logs.setdefault(matched_name, []).append(fullfn) over the walk
\* match_file(item['fnp'], fullfn) for each file of the walk w
RECURSIVE matches(_, _)
matches(fnp, w) ==
    IF w = <<>> THEN <<>>
    ELSE <<match_file(fnp, Head(w).path)>> \o matches(fnp, Tail(w))

\* the files of w, in order, whose match m is ok with the name n
RECURSIVE files_named(_, _, _)
files_named(w, m, n) ==
    IF w = <<>> THEN <<>>
    ELSE (IF Head(m).ok /\ Head(m).name = n THEN <<Head(w)>> ELSE <<>>)
             \o files_named(Tail(w), Tail(m), n)

build_logs(fnp, paths, d) ==
    LET w == walk(paths, d)
        m == matches(fnp, w)
        names == {m[i].name : i \in {j \in 1..Len(m) : m[j].ok}}
    IN [n \in names |-> files_named(w, m, n)]

\* the walk meets a file on which match_file raises
match_raises(fnp, paths, d) ==
    LET m == matches(fnp, walk(paths, d))
    IN \E i \in 1..Len(m) : m[i].raised

\* sorted(..., key=getmtime, reverse=True): stable, newest first
RECURSIVE InsertDesc(_, _)
InsertDesc(x, s) ==
    IF s = <<>> THEN <<x>>
    ELSE IF Head(s).mtime >= x.mtime THEN <<Head(s)>> \o InsertDesc(x, Tail(s))
    ELSE <<x>> \o s

RECURSIVE sorted_by_mtime(_)
sorted_by_mtime(s) ==
    IF s = <<>> THEN <<>>
    ELSE InsertDesc(Last(s), sorted_by_mtime(SubSeq(s, 1, Len(s) - 1)))

\* mutants of filtered: the age test not strict; include overriding exclude;
\* the inspect call honouring the excluded list
filtered_not_strict(name, d, duration, inspect, item) ==
    \/ /\ ~inspect.set
       /\ \/ /\ duration.set
             /\ d >= duration.v
             /\ name \notin Range(item.included)
          \/ name \in Range(item.excluded)
    \/ /\ inspect.set
       /\ name # inspect.v

filtered_include_wins(name, d, duration, inspect, item) ==
    \/ /\ ~inspect.set
       /\ \/ duration.set /\ d > duration.v
          \/ name \in Range(item.excluded)
       /\ name \notin Range(item.included)
    \/ /\ inspect.set
       /\ name # inspect.v

filtered_inspect_excludes(name, d, duration, inspect, item) ==
    \/ /\ ~inspect.set
       /\ \/ /\ duration.set
             /\ d > duration.v
             /\ name \notin Range(item.included)
          \/ name \in Range(item.excluded)
    \/ /\ inspect.set
       /\ (name # inspect.v \/ name \in Range(item.excluded))

\* the continue condition of the identity loop
filtered(name, d, duration, inspect, item) ==
    \/ /\ ~inspect.set
       /\ \/ /\ duration.set
             /\ d > duration.v
             /\ name \notin Range(item.included)
          \/ name \in Range(item.excluded)
    \/ /\ inspect.set
       /\ name # inspect.v

\* an effective pattern list with the user patterns ahead of the builtin
\* ones (used to test the claims)
effective_patterns_user_first(item) ==
    <<item.ending>>
      \o item.patterns
      \o (IF item.builtin_func THEN <<EpochRe, IterRe, LossRe, EtaRe>> ELSE <<>>)

\* the effective pattern list, lines 353-360
effective_patterns(item) ==
    <<item.ending>>
      \o (IF item.builtin_func THEN <<EpochRe, IterRe, LossRe, EtaRe>> ELSE <<>>)
      \o item.patterns

\* mutant of matched_value: the first match instead of the last
matched_value_first(i, p, results) == IF i = 1 THEN IdxVal(p) ELSE TextVal(Head(results))

\* what one pattern of the list records when it matches
matched_value(i, p, results) == IF i = 1 THEN IdxVal(p) ELSE TextVal(Last(results))

\* mutant of scan_patterns: a pattern already found is matched again
RECURSIVE scan_patterns_again(_, _, _, _, _, _, _)
scan_patterns_again(i, pats, fnd, text, p, tmp, rem) ==
    IF i > Len(pats) THEN [tmp |-> tmp, remain |-> rem]
    ELSE LET pattern == pats[i]
             results == findall(pattern, text)
         IN IF results # <<>>
            THEN scan_patterns_again(i + 1, pats, fnd, text, p,
                     [q \in DOMAIN tmp \cup {pattern} |->
                         IF q = pattern
                         THEN (IF i = 1 THEN IdxVal(p) ELSE TextVal(Last(results)))
                         ELSE tmp[q]],
                     IF pattern \in DOMAIN fnd THEN rem ELSE rem - 1)
            ELSE scan_patterns_again(i + 1, pats, fnd, text, p, tmp, rem)

\* a scan that counts a pattern string once however many entries of the list
\* hold it (used to test the claims)
RECURSIVE scan_patterns_counts_once(_, _, _, _, _, _, _)
scan_patterns_counts_once(i, pats, fnd, text, p, tmp, rem) ==
    IF i > Len(pats) THEN [tmp |-> tmp, remain |-> rem]
    ELSE LET pattern == pats[i]
             results == findall(pattern, text)
         IN IF pattern \notin DOMAIN fnd /\ results # <<>>
            THEN scan_patterns_counts_once(i + 1, pats, fnd, text, p,
                     [q \in DOMAIN tmp \cup {pattern} |->
                         IF q = pattern THEN matched_value(i, p, results)
                         ELSE tmp[q]],
                     IF pattern \in DOMAIN tmp THEN rem ELSE rem - 1)
            ELSE scan_patterns_counts_once(i + 1, pats, fnd, text, p, tmp, rem)

\* the for loop over the patterns for one file: tmp and remain afterwards
RECURSIVE scan_patterns(_, _, _, _, _, _, _)
scan_patterns(i, pats, fnd, text, p, tmp, rem) ==
    IF i > Len(pats) THEN [tmp |-> tmp, remain |-> rem]
    ELSE LET pattern == pats[i]
             results == findall(pattern, text)
         IN IF pattern \notin DOMAIN fnd /\ results # <<>>
            THEN scan_patterns(i + 1, pats, fnd, text, p,
                     [q \in DOMAIN tmp \cup {pattern} |->
                         IF q = pattern THEN matched_value(i, p, results)
                         ELSE tmp[q]],
                     rem - 1)
            ELSE scan_patterns(i + 1, pats, fnd, text, p, tmp, rem)

\* found.update(tmp)
dict_update(fnd, tmp) ==
    [q \in DOMAIN fnd \cup DOMAIN tmp |-> IF q \in DOMAIN tmp THEN tmp[q] ELSE fnd[q]]

\* mutant of scanning: the loop does not stop when nothing remains
scanning_every_file(rem, p, files) == p + 1 < Len(files)

\* the while condition of the file loop
scanning(rem, p, files) == rem > 0 /\ p + 1 < Len(files)

\* the file loop as a whole, from ptr = p: found when it ends
RECURSIVE probe(_, _, _, _, _)
probe(p, fnd, rem, files, pats) ==
    IF scanning(rem, p, files)
    THEN LET r == scan_patterns(1, pats, fnd, files[p + 2].text, p + 1, <<>>, rem)
         IN probe(p + 1, dict_update(fnd, r.tmp), r.remain, files, pats)
    ELSE fnd

\* mutant of end_flag: the termination pattern found in any file
end_flag_any(pats, fnd) == IF pats[1] \in DOMAIN fnd THEN 1 ELSE 0

\* flag of the identity
end_flag(pats, fnd) ==
    IF pats[1] \in DOMAIN fnd /\ fnd[pats[1]].idx = 0 THEN 1 ELSE 0

\* the found values in display order (item_str before it is cut into lines)
RECURSIVE item_values(_, _, _)
item_values(i, pats, fnd) ==
    IF i > Len(pats) THEN <<>>
    ELSE IF pats[i] \in DOMAIN fnd
         THEN <<fnd[pats[i]]>> \o item_values(i + 1, pats, fnd)
         ELSE item_values(i + 1, pats, fnd)

\* ' ' + found[pattern] raises TypeError when the value is not a str
str_concat_fails(pats, fnd) ==
    \E i \in 2..Len(pats) : pats[i] \in DOMAIN fnd /\ fnd[pats[i]].idx >= 0

----------------------------------------------------------------------------
(* The pass: render_panel_view / render_inspect_view and group_panel_view *)

EmptyDict == <<>>

inspect_arg == IF call.op = "inspect" THEN Some(call.name) ELSE None
duration_arg == IF call.op = "status" THEN call.duration ELSE None

\* a status command that visits no group when it names a tag that is not
\* activated (used to test the claims)
process_known_tags_only ==
    /\ pc = "start"
    /\ tagq' = IF call.op = "status"
               THEN (IF call.tags \subseteq DOMAIN cfg.activated_groups
                     THEN SelectSeq(SortedNames(DOMAIN cfg.activated_groups),
                                    LAMBDA t : call.tags = {} \/ t \in call.tags)
                     ELSE <<>>)
               ELSE <<call.tag>>
    /\ pc' = "tags"
    /\ UNCHANGED <<cfg, disk, now, call, err, tag, logs, keys, one, fns, delta,
                   patterns, found, remain, ptr, reads, recs,
                   ret_str_ongoing, ret_str_ended>>

\* process: the status command (render_by_args -> render_panel_view) visits
\* the activated tags, sorted, that the call names (every activated tag when
\* it names none); the inspect command (render_inspect_view) the one tag given
process ==
    /\ pc = "start"
    /\ tagq' = IF call.op = "status"
               THEN SelectSeq(SortedNames(DOMAIN cfg.activated_groups),
                              LAMBDA t : call.tags = {} \/ t \in call.tags)
               ELSE <<call.tag>>
    /\ pc' = "tags"
    /\ UNCHANGED <<cfg, disk, now, call, err, tag, logs, keys, one, fns, delta,
                   patterns, found, remain, ptr, reads, recs,
                   ret_str_ongoing, ret_str_ended>>

\* group_panel_view, lines 334-345: self[tag] (KeyError for a tag that is not
\* activated), then the walk that fills logs (KeyError out of match_file)
group_panel_view_enter ==
    /\ pc = "tags"
    /\ tagq # <<>>
    /\ LET t == Head(tagq) IN
       IF \/ t \notin DOMAIN cfg.activated_groups
          \/ match_raises(cfg.activated_groups[t].fnp,
                          cfg.activated_groups[t].paths, disk)
       THEN /\ pc' = "raised"
            /\ err' = "KeyError"
            /\ UNCHANGED <<tagq, tag, logs, keys, recs>>
       ELSE /\ tag' = t
            /\ tagq' = Tail(tagq)
            /\ logs' = build_logs(cfg.activated_groups[t].fnp,
                                   cfg.activated_groups[t].paths, disk)
            /\ keys' = SortedNames(DOMAIN logs')
            /\ recs' = EmptyDict
            /\ pc' = "keys"
            /\ err' = err
    /\ UNCHANGED <<cfg, disk, now, call, one, fns, delta, patterns, found,
                   remain, ptr, reads, ret_str_ongoing, ret_str_ended>>

\* group_panel_view, lines 346-363: the head of the identity loop
group_panel_view_next ==
    /\ pc = "keys"
    /\ keys # <<>>
    /\ LET item == cfg.activated_groups[tag]
           name == Head(keys)
           files == sorted_by_mtime(logs[name])
           d == Trunc(now - files[1].mtime, TicksPerSec)
       IN /\ one' = name
          /\ keys' = Tail(keys)
          /\ fns' = files
          /\ delta' = d
          /\ reads' = <<>>
          /\ IF filtered(name, d, duration_arg, inspect_arg, item)
             THEN UNCHANGED <<pc, patterns, found, remain, ptr>>
             ELSE /\ patterns' = effective_patterns(item)
                  /\ found' = EmptyDict
                  /\ ptr' = -1
                  /\ remain' = Len(patterns')
                  /\ pc' = "scan"
    /\ UNCHANGED <<cfg, disk, now, call, err, tagq, tag, logs, recs,
                   ret_str_ongoing, ret_str_ended>>

\* group_panel_view, lines 364-380: one turn of the file loop
group_panel_view_read ==
    /\ pc = "scan"
    /\ scanning(remain, ptr, fns)
    /\ LET fn == fns[ptr + 2] IN      \* fns[ptr] after ptr += 1, 1-based
       /\ ptr' = ptr + 1
       /\ reads' = Append(reads, fn.fn)
       /\ IF ~fn.readable
          THEN /\ pc' = "raised"
               /\ err' = "OSError"
               /\ UNCHANGED <<found, remain>>
          ELSE LET r == scan_patterns(1, patterns, found, fn.text, ptr + 1,
                                      EmptyDict, remain)
               IN /\ found' = dict_update(found, r.tmp)
                  /\ remain' = r.remain
                  /\ UNCHANGED <<pc, err>>
    /\ UNCHANGED <<cfg, disk, now, call, tagq, tag, logs, keys, one, fns, delta,
                   patterns, recs, ret_str_ongoing, ret_str_ended>>

\* the record of one identity (tmp of line 418, before formatting)
record(name, d, pats, fnd, files, inspect) ==
    [name |-> name, delta |-> d, values |-> item_values(2, pats, fnd),
     files |-> IF inspect.set THEN files ELSE <<>>]

\* recs.setdefault(flag, []).append(tmp)
setdefault_append(r, flag, tmp) ==
    [f \in DOMAIN r \cup {flag} |->
        IF f = flag THEN (IF flag \in DOMAIN r THEN Append(r[flag], tmp) ELSE <<tmp>>)
        ELSE r[f]]

\* mutant of group_panel_view_classify: no record when nothing is found
group_panel_view_classify_skips ==
    /\ pc = "scan"
    /\ ~scanning(remain, ptr, fns)
    /\ recs' = IF found = <<>> THEN recs
               ELSE setdefault_append(recs, end_flag(patterns, found),
                        record(one, delta, patterns, found, fns, inspect_arg))
    /\ pc' = "keys"
    /\ UNCHANGED <<cfg, disk, now, call, err, tagq, tag, logs, keys, one, fns,
                   delta, patterns, found, remain, ptr, reads,
                   ret_str_ongoing, ret_str_ended>>

\* group_panel_view, lines 381-419: classification of the identity scanned
group_panel_view_classify ==
    /\ pc = "scan"
    /\ ~scanning(remain, ptr, fns)
    /\ IF str_concat_fails(patterns, found)
       THEN /\ pc' = "raised"
            /\ err' = "TypeError"
            /\ recs' = recs
       ELSE /\ recs' = setdefault_append(recs, end_flag(patterns, found),
                           record(one, delta, patterns, found, fns, inspect_arg))
            /\ pc' = "keys"
            /\ err' = err
    /\ UNCHANGED <<cfg, disk, now, call, tagq, tag, logs, keys, one, fns, delta,
                   patterns, found, remain, ptr, reads,
                   ret_str_ongoing, ret_str_ended>>

\* group_panel_view, lines 420-422, and the caller's loop over
\* zip(end_flags, view_strs)
group_panel_view_return ==
    /\ pc = "keys"
    /\ keys = <<>>
    /\ ret_str_ended' = IF 1 \in DOMAIN recs
                        THEN Append(ret_str_ended, [tag |-> tag, view |-> recs[1]])
                        ELSE ret_str_ended
    /\ ret_str_ongoing' = IF 0 \in DOMAIN recs
                          THEN Append(ret_str_ongoing, [tag |-> tag, view |-> recs[0]])
                          ELSE ret_str_ongoing
    /\ pc' = "tags"
    /\ UNCHANGED <<cfg, disk, now, call, err, tagq, tag, logs, keys, one, fns,
                   delta, patterns, found, remain, ptr, reads, recs>>

\* the end of render_panel_view / render_inspect_view
render_view_return ==
    /\ pc = "tags"
    /\ tagq = <<>>
    /\ pc' = "done"
    /\ UNCHANGED <<cfg, disk, now, call, err, tagq, tag, logs, keys, one, fns,
                   delta, patterns, found, remain, ptr, reads, recs,
                   ret_str_ongoing, ret_str_ended>>

NextPass ==
    \/ process
    \/ group_panel_view_enter
    \/ group_panel_view_next
    \/ group_panel_view_read
    \/ group_panel_view_classify
    \/ group_panel_view_return
    \/ render_view_return

----------------------------------------------------------------------------
(* config: the group settings a pass reads *)

\* list(set(...)): the elements of S once each, in any order
Perms(S) == {q \in [1..Cardinality(S) -> S] : Range(q) = S}

\* a config that leaves in excluded the names it includes (used to test the
\* claims)
config_items_keeps_excluded(item, fnp, ending, builtin_func, remove_all_path, remove_all_patterns, include, exclude) ==
    LET ex1s == IF exclude.set
                THEN Perms(Range(item.excluded) \cup Range(exclude.v))
                ELSE {item.excluded}
        in1s(ex1) == IF exclude.set
                     THEN Perms(Range(item.included) \ Range(ex1))
                     ELSE {item.included}
        in2s(in1) == IF include.set
                     THEN Perms(Range(in1) \cup Range(include.v))
                     ELSE {in1}
    IN UNION {UNION {
         {[fnp |-> IF fnp.set THEN fnp.v ELSE item.fnp,
           ending |-> IF ending.set THEN ending.v ELSE item.ending,
           builtin_func |-> IF builtin_func.set THEN builtin_func.v
                            ELSE item.builtin_func,
           paths |-> IF remove_all_path THEN <<>> ELSE item.paths,
           patterns |-> IF remove_all_patterns THEN <<>> ELSE item.patterns,
           excluded |-> ex1,
           included |-> in2] : in2 \in in2s(in1)}
         : in1 \in in1s(ex1)} : ex1 \in ex1s}

\* the groups a config call with these arguments can leave for the item
\* (lines 154-172); an argument left out is None (remove_all_path and
\* remove_all_patterns: FALSE); list(set(...)) comes in any order
config_items(item, fnp, ending, builtin_func, remove_all_path, remove_all_patterns, include, exclude) ==
    LET ex1s == IF exclude.set
                THEN Perms(Range(item.excluded) \cup Range(exclude.v))
                ELSE {item.excluded}
        in1s(ex1) == IF exclude.set
                     THEN Perms(Range(item.included) \ Range(ex1))
                     ELSE {item.included}
        in2s(in1) == IF include.set
                     THEN Perms(Range(in1) \cup Range(include.v))
                     ELSE {in1}
        ex2s(ex1, in2) == IF include.set
                          THEN Perms(Range(ex1) \ Range(in2))
                          ELSE {ex1}
    IN UNION {UNION {UNION {
         {[fnp |-> IF fnp.set THEN fnp.v ELSE item.fnp,
           ending |-> IF ending.set THEN ending.v ELSE item.ending,
           builtin_func |-> IF builtin_func.set THEN builtin_func.v
                            ELSE item.builtin_func,
           paths |-> IF remove_all_path THEN <<>> ELSE item.paths,
           patterns |-> IF remove_all_patterns THEN <<>> ELSE item.patterns,
           excluded |-> ex2,
           included |-> in2] : ex2 \in ex2s(ex1, in2)}
         : in2 \in in2s(in1)} : in1 \in in1s(ex1)} : ex1 \in ex1s}

\* config(tag, ...), lines 152-173, with self.save()
config(t, fnp, ending, builtin_func, remove_all_path, remove_all_patterns, include, exclude) ==
    /\ t \in DOMAIN cfg.activated_groups        \* else KeyError, nothing saved
    /\ \E item \in config_items(cfg.activated_groups[t], fnp, ending, builtin_func, remove_all_path, remove_all_patterns, include, exclude) :
          cfg' = [cfg EXCEPT !.activated_groups[t] = item]

----------------------------------------------------------------------------
(* The methods that edit the stored groups. Each is a function of the      *)
(* config c it finds; a method that can raise gives the config it has      *)
(* saved and the exception ("" for none).                                  *)

Res(c, e) == [cfg |-> c, err |-> e]

\* d[k] = v and del d[k] on a dict
Put(d, k, v) == [x \in DOMAIN d \cup {k} |-> IF x = k THEN v ELSE d[x]]
Del(d, k) == [x \in DOMAIN d \ {k} |-> d[x]]

\* self[tag] raises KeyError
getitem_raises(c, t) == t \notin DOMAIN c.activated_groups

\* the config with the activated group t replaced
with_item(c, t, item) == [c EXCEPT !.activated_groups = Put(@, t, item)]

\* activate(tags), lines 175-185
RECURSIVE activate(_, _)
activate(c, tags) ==
    IF tags = <<>> THEN c
    ELSE LET t == Head(tags)
             c1 == IF t \in DOMAIN c.deactivated_groups
                   THEN [activated_groups |->
                            IF t \notin DOMAIN c.activated_groups
                            THEN Put(c.activated_groups, t, c.deactivated_groups[t])
                            ELSE c.activated_groups,
                         deactivated_groups |-> Del(c.deactivated_groups, t)]
                   ELSE c
             c2 == IF t \notin DOMAIN c1.activated_groups
                   THEN with_item(c1, t, default_group)
                   ELSE c1
         IN activate(c2, Tail(tags))

\* deactivate(tags), lines 187-196
RECURSIVE deactivate(_, _)
deactivate(c, tags) ==
    IF tags = <<>> THEN c
    ELSE LET t == Head(tags)
             c1 == IF t \in DOMAIN c.activated_groups
                   THEN [activated_groups |-> Del(c.activated_groups, t),
                         deactivated_groups |->
                            Put(c.deactivated_groups, t, c.activated_groups[t])]
                   ELSE IF t \in DOMAIN c.deactivated_groups
                   THEN [c EXCEPT !.deactivated_groups = Del(@, t)]
                   ELSE c
         IN deactivate(c1, Tail(tags))

\* add_paths(tag, paths), lines 198-202; a path is given absolute
add_paths(c, t, paths) ==
    IF getitem_raises(c, t) THEN Res(c, "KeyError")
    ELSE LET item == c.activated_groups[t]
         IN Res(with_item(c, t, [item EXCEPT !.paths = @ \o paths]), "")

\* del_paths(tag, paths), lines 204-213
del_paths(c, t, paths) ==
    IF getitem_raises(c, t) THEN Res(c, "KeyError")
    ELSE LET item == c.activated_groups[t]
             new_paths == SelectSeq(item.paths, LAMBDA x : x \notin Range(paths))
         IN Res(with_item(c, t, [item EXCEPT !.paths = new_paths]), "")

\* add_patterns(tag, patterns), lines 215-219
add_patterns(c, t, pats) ==
    IF getitem_raises(c, t) THEN Res(c, "KeyError")
    ELSE LET item == c.activated_groups[t]
         IN Res(with_item(c, t, [item EXCEPT !.patterns = @ \o pats]), "")

\* str.isdigit() and int() on the index strings the model writes
Digits == <<"0", "1", "2", "3", "4", "5">>
isdigit(x) == \E i \in 1..Len(Digits) : Digits[i] = x
int(x) == (CHOOSE i \in 1..Len(Digits) : Digits[i] = x) - 1

\* del_patterns(tag, patterns), lines 221-236: an argument made of digits is
\* the index of a pattern to remove, any other a pattern to remove
del_patterns(c, t, pats) ==
    IF getitem_raises(c, t) THEN Res(c, "KeyError")
    ELSE LET item == c.activated_groups[t]
             rm_set == {int(x) : x \in {y \in Range(pats) : isdigit(y)}}
             p_set == {y \in Range(pats) : ~isdigit(y)}
             keep == {i \in 1..Len(item.patterns) :
                         (i - 1) \notin rm_set /\ item.patterns[i] \notin p_set}
             RECURSIVE kept(_)
             kept(i) == IF i > Len(item.patterns) THEN <<>>
                        ELSE (IF i \in keep THEN <<item.patterns[i]>> ELSE <<>>)
                                 \o kept(i + 1)
         IN Res(with_item(c, t, [item EXCEPT !.patterns = kept(1)]), "")

\* arrange(tag, indices), lines 238-249; the list comprehension of line 247
\* raises IndexError on an index past the end of the patterns
arrange(c, t, indices) ==
    IF getitem_raises(c, t) THEN Res(c, "KeyError")
    ELSE LET item == c.activated_groups[t]
             n == Len(indices)
             p == Range(indices)
         IN IF Cardinality(p) # n THEN Res(c, "IndexError")
            ELSE IF \E i \in 0..n - 1 : i \notin p THEN Res(c, "IndexError")
            ELSE IF \E k \in 1..n : indices[k] >= Len(item.patterns)
            THEN Res(c, "IndexError")
            ELSE Res(with_item(c, t,
                        [item EXCEPT !.patterns =
                            [k \in 1..n |-> item.patterns[indices[k] + 1]]]), "")

\* edit_patterns(tag, index, p), lines 251-264; index is a str of the
\* command line
edit_patterns(c, t, index, p) ==
    IF getitem_raises(c, t) THEN Res(c, "KeyError")
    ELSE LET item == c.activated_groups[t]
         IN IF ~isdigit(index) THEN Res(c, "IndexError")
            ELSE IF ~(int(index) >= 0 /\ int(index) < Len(item.patterns))
            THEN Res(c, "IndexError")
            ELSE Res(with_item(c, t,
                        [item EXCEPT !.patterns[int(index) + 1] = p]), "")

\* a mv that leaves the old tag in place (used to test the claims)
mv_keeps_old(c, oldtag, newtag) ==
    IF newtag \in DOMAIN c.activated_groups THEN Res(c, "ValueError")
    ELSE IF oldtag \notin DOMAIN c.activated_groups THEN Res(c, "KeyError")
    ELSE Res([c EXCEPT !.activated_groups =
                 Put(@, newtag, c.activated_groups[oldtag])], "")

\* mv(oldtag, newtag), lines 266-273
mv(c, oldtag, newtag) ==
    IF newtag \in DOMAIN c.activated_groups THEN Res(c, "ValueError")
    ELSE IF oldtag \notin DOMAIN c.activated_groups THEN Res(c, "KeyError")
    ELSE Res([c EXCEPT !.activated_groups =
                 Del(Put(@, newtag, c.activated_groups[oldtag]), oldtag)], "")

----------------------------------------------------------------------------
(* The commands that edit the stored groups (process, lines 508-523; main, *)
(* lines 532-544). A command is one run of the program: it loads the       *)
(* config, calls the methods, each of which saves, and main reports the    *)
(* exception that ends it. cfg is the config as stored when the run ends,  *)
(* call the command and its arguments, err the exception reported.         *)

ran(c, e, command) ==
    /\ pc = "start"
    /\ cfg' = c
    /\ err' = e
    /\ call' = command
    /\ UNCHANGED <<disk, now, pc, tagq, tag, logs, keys, one, fns, delta,
                   patterns, found, remain, ptr, reads, recs,
                   ret_str_ongoing, ret_str_ended>>

\* add tag [path ...] [-p pattern ...]; the stored lists are kept within the
\* bounds of the model
add_group_by_args(t, path, pattern) ==
    LET c1 == activate(cfg, <<t>>)
        r2 == add_paths(c1, t, path)
        r3 == add_patterns(r2.cfg, t, pattern)
    IN /\ Len(r3.cfg.activated_groups[t].patterns) <= MaxPatterns
       /\ Len(r3.cfg.activated_groups[t].paths) <= MaxPaths
       /\ ran(r3.cfg, "", [op |-> "add", tag |-> t, path |-> path, pattern |-> pattern])

\* rm tag [tag ...]
rm_group_by_args(tags) ==
    ran(deactivate(cfg, tags), "", [op |-> "rm", tag |-> tags])

\* delete tag [path ...] [-p pattern ...]
del_group_by_args(t, path, pattern) ==
    LET r1 == del_paths(cfg, t, path)
        r2 == IF r1.err # "" THEN r1 ELSE del_patterns(r1.cfg, t, pattern)
    IN ran(r2.cfg, r2.err, [op |-> "delete", tag |-> t, path |-> path, pattern |-> pattern])

\* rename oldtag newtag
mv_group_by_args(oldtag, newtag) ==
    LET r == mv(cfg, oldtag, newtag)
    IN ran(r.cfg, r.err, [op |-> "rename", oldtag |-> oldtag, newtag |-> newtag])

\* arrange tag [index ...]
arrange_group_by_args(t, indices) ==
    LET r == arrange(cfg, t, indices)
    IN ran(r.cfg, r.err, [op |-> "arrange", tag |-> t, indices |-> indices])

\* the edit_patterns calls of config_group_by_args, lines 498-500: each one
\* saves, the first that raises ends the command
RECURSIVE edit_all(_, _, _)
edit_all(c, t, pattern) ==
    IF pattern = <<>> THEN Res(c, "")
    ELSE LET r == edit_patterns(c, t, Head(pattern)[1], Head(pattern)[2])
         IN IF r.err # "" THEN r ELSE edit_all(r.cfg, t, Tail(pattern))

\* config tag [-f file] [-E end] [-d | -e] [-a] [-A] [-x name ...]
\* [-i name ...] [-p index pattern]...: config saves before the first
\* edit_patterns is called
config_group_by_args(t, file, end, default, allpath, allcfg, exclude, include, pattern) ==
    LET command == [op |-> "config", tag |-> t, file |-> file, end |-> end,
                    default |-> default, allpath |-> allpath, allcfg |-> allcfg,
                    exclude |-> exclude, include |-> include, pattern |-> pattern]
    IN IF getitem_raises(cfg, t)
       THEN ran(cfg, "KeyError", command)
       ELSE \E item \in config_items(cfg.activated_groups[t], file, end, default, allpath, allcfg, include, exclude) :
               LET r == edit_all(with_item(cfg, t, item), t,
                                 IF pattern.set THEN pattern.v ELSE <<>>)
               IN ran(r.cfg, r.err, command)

----------------------------------------------------------------------------
(* Initial states: a configuration as load_cfg returns it, a file system,   *)
(* and one call                                                             *)

Now == 10 * DaySecs * TicksPerSec

Root == "p1"

DotL == Str(<<".", "l">>)

\* the files of one root: file i is named <name>.l, and has the mtime given
\* and a text whose j-th token has the key given and a matched text <<i, j>>
\* found nowhere else; open() succeeds on it unless it is said unreadable
MkFiles(descr) ==
    [i \in 1..Len(descr) |->
        [fn |-> i, path |-> descr[i].name \o DotL, mtime |-> descr[i].mtime,
         readable |-> IF "readable" \in DOMAIN descr[i]
                      THEN descr[i].readable ELSE TRUE,
         text |-> [j \in 1..Len(descr[i].keys) |->
                      [key |-> descr[i].keys[j], val |-> <<i, j>>]]]]

Group(ending, builtin_func, pats, excluded, included) ==
    [fnp |-> DefaultFnp, ending |-> ending, builtin_func |-> builtin_func,
     paths |-> <<Root>>, patterns |-> pats,
     excluded |-> excluded, included |-> included]

StatusCall(tags, duration) == [op |-> "status", tags |-> tags, duration |-> duration]
InspectCall(t, name) == [op |-> "inspect", tag |-> t, name |-> name]

InitPass(Cfgs, Disks, Calls) ==
    /\ cfg \in Cfgs
    /\ disk \in Disks
    /\ call \in Calls
    /\ now = Now
    /\ pc = "start"
    /\ err = ""
    /\ tagq = <<>>
    /\ tag = NoName
    /\ logs = <<>>
    /\ keys = <<>>
    /\ one = NoName
    /\ fns = <<>>
    /\ delta = 0
    /\ patterns = <<>>
    /\ found = <<>>
    /\ remain = 0
    /\ ptr = -1
    /\ reads = <<>>
    /\ recs = <<>>
    /\ ret_str_ongoing = <<>>
    /\ ret_str_ended = <<>>

\* the probe of one identity: every text, every pattern list
ProbeCfgs ==
    {[activated_groups |-> (TagG :> Group("done", b, pats, <<>>, <<>>)),
      deactivated_groups |-> <<>>]
        : b \in BOOLEAN, pats \in SeqsUpTo({"done", "loss"}, MaxPatterns)}

\* the files of the one identity, met by the walk oldest first, a second apart
ProbeDescrs ==
    UNION {{[i \in 1..k |-> [name |-> NameA,
                             mtime |-> Now - (k - i + 1) * TicksPerSec,
                             keys |-> t[i]]]
               : t \in [1..k -> SeqsUpTo({"DONE", "loss"}, MaxTokens)]}
              : k \in 1..MaxFiles}

ProbeDisks == {(Root :> MkFiles(d)) : d \in ProbeDescrs}

InitProbe == InitPass(ProbeCfgs, ProbeDisks, {StatusCall({}, None)})

SpecProbe == InitProbe /\ [][NextPass]_vars

\* the status pass over groups: every filter setting, two identities
PanelCfgs ==
    {[activated_groups |-> g, deactivated_groups |-> <<>>]
        : g \in UNION {
            {(TagG :> Group("done", TRUE, <<>>, ex, inc)),
             (TagH :> Group("loss", FALSE, <<>>, <<>>, <<>>))
                @@ (TagG :> Group("done", TRUE, <<>>, ex, inc))}
              : ex \in {<<>>, <<NameAA>>}, inc \in {<<>>, <<NameAA>>}}}

\* idle for exactly one day, for a fraction of a second more, for a second more
PanelMtimes ==
    {Now - DaySecs * TicksPerSec,
     Now - DaySecs * TicksPerSec - 1,
     Now - DaySecs * TicksPerSec - TicksPerSec}

PanelDescrs ==
    UNION {[1..k -> [name : {NameAA, NameB}, mtime : PanelMtimes,
                     keys : {<<>>, <<"DONE">>, <<"loss">>}]]
              : k \in 0..MaxFiles}

PanelDisks == {(Root :> MkFiles(d)) : d \in PanelDescrs}

PanelCalls ==
    {StatusCall({}, None), StatusCall({}, Some(1 * DaySecs)),
     InspectCall(TagG, NameAA)}

InitPanel == InitPass(PanelCfgs, PanelDisks, PanelCalls)

SpecPanel == InitPanel /\ [][NextPass]_vars

\* the config command before the pass, with include and exclude arguments
config_include_exclude ==
    /\ pc = "start"
    /\ \E include \in {None, Some(<<NameAA>>)}, exclude \in {None, Some(<<NameAA>>)} :
          config(TagG, None, None, None, FALSE, FALSE, include, exclude)
    /\ UNCHANGED <<disk, now, call, pc, err, tagq, tag, logs, keys, one, fns,
                   delta, patterns, found, remain, ptr, reads, recs,
                   ret_str_ongoing, ret_str_ended>>

NextConfigPass ==
    \/ config_include_exclude
    \/ NextPass

\* a fresh group, and a stored group that lists one name in both sets
ConfigPassCfgs ==
    {[activated_groups |-> (TagG :> Group("done", FALSE, <<>>, both, both)),
      deactivated_groups |-> <<>>]
        : both \in {<<>>, <<NameAA>>}}

InitConfigPass ==
    InitPass(ConfigPassCfgs, PanelDisks,
             {StatusCall({}, None), StatusCall({}, Some(1 * DaySecs))})

SpecConfigPass == InitConfigPass /\ [][NextConfigPass]_vars

\* the status pass over one file, for every short path and a few templates:
\* '{name}.l', 'a{name}.l', '{x}.l', 'l' and the default '{name}.{ext}'
NameField == Str(<<"{", "n", "a", "m", "e", "}">>)

MatchTemplates ==
    {NameField \o DotL,
     Str(<<"a">>) \o NameField \o DotL,
     Str(<<"{", "x", "}">>) \o DotL,
     Str(<<"l">>),
     DefaultFnp}

PathChars == {Ord("a"), Ord("l"), Ord("L"), Ord(".")}

MatchPaths == SeqsUpTo(PathChars, MaxPathLen) \ {<<>>}

MatchCfgs ==
    {[activated_groups |->
         (TagG :> [Group("done", FALSE, <<>>, <<>>, <<>>) EXCEPT !.fnp = t]),
      deactivated_groups |-> <<>>]
        : t \in MatchTemplates}

MatchDisks ==
    {(Root :> <<[fn |-> 1, path |-> p, mtime |-> Now - TicksPerSec,
                 readable |-> TRUE, text |-> <<>>]>>)
        : p \in MatchPaths}

InitMatch == InitPass(MatchCfgs, MatchDisks, {StatusCall({}, None)})

SpecMatch == InitMatch /\ [][NextPass]_vars

\* the status pass over files some of which open() cannot read (permission
\* denied): two identities, files met oldest first, a second apart
UnreadableDescrs ==
    UNION {{[i \in 1..k |-> [name |-> d[i].name, readable |-> d[i].readable,
                             keys |-> d[i].keys,
                             mtime |-> Now - (k - i + 1) * TicksPerSec]]
               : d \in [1..k -> [name : {NameA, NameB}, readable : BOOLEAN,
                                 keys : {<<>>, <<"DONE">>}]]}
              : k \in 1..MaxFiles}

UnreadableDisks == {(Root :> MkFiles(d)) : d \in UnreadableDescrs}

UnreadableCfgs ==
    {[activated_groups |-> (TagG :> Group("done", FALSE, <<>>, <<>>, <<>>)),
      deactivated_groups |-> <<>>]}

InitUnreadable ==
    InitPass(UnreadableCfgs, UnreadableDisks, {StatusCall({}, None)})

SpecUnreadable == InitUnreadable /\ [][NextPass]_vars

\* the status command naming tags: one or two activated groups, and calls
\* that name any of TagG, TagH and a tag TagU the config does not hold
TagsCfgs ==
    {[activated_groups |-> (TagG :> Group("done", FALSE, <<>>, <<>>, <<>>)),
      deactivated_groups |-> <<>>],
     [activated_groups |-> (TagG :> Group("done", FALSE, <<>>, <<>>, <<>>))
                           @@ (TagH :> Group("loss", FALSE, <<>>, <<>>, <<>>)),
      deactivated_groups |-> <<>>]}

TagsDescrs ==
    UNION {{[i \in 1..k |-> [name |-> d[i].name, keys |-> d[i].keys,
                             mtime |-> Now - (k - i + 1) * TicksPerSec]]
               : d \in [1..k -> [name : {NameA, NameB},
                                 keys : {<<>>, <<"DONE">>}]]}
              : k \in 0..MaxFiles}

TagsDisks == {(Root :> MkFiles(d)) : d \in TagsDescrs}

TagsCalls == {StatusCall(ts, None) : ts \in SUBSET {TagG, TagH, TagU}}

InitTags == InitPass(TagsCfgs, TagsDisks, TagsCalls)

SpecTags == InitTags /\ [][NextPass]_vars

\* runs of add, rm and rename on three tags, from the empty config; a group
\* is told from another by the number of its patterns
NoCall == [op |-> "none"]

InitEmpty == InitPass({init_config}, {(Root :> <<>>)}, {NoCall})

GroupTags == {TagG, TagH, TagU}

NextGroups ==
    \/ \E t \in GroupTags, pattern \in {<<>>, <<"p">>} :
          add_group_by_args(t, <<>>, pattern)
    \/ \E tags \in {<<t>> : t \in GroupTags} \cup {<<TagG, TagH>>} :
          rm_group_by_args(tags)
    \/ \E oldtag \in GroupTags, newtag \in GroupTags :
          mv_group_by_args(oldtag, newtag)

SpecGroups == InitEmpty /\ [][NextGroups]_vars

\* runs of all six commands on one group, TagG, and on a tag the config
\* never holds, TagU, from the empty config
EditTags == {TagG, TagU}

\* the -p arguments of config: pattern 0 edited, an index past every list,
\* and both in turn
EditPatternArgs ==
    {None, Some(<<<<"0", "q">>>>), Some(<<<<"5", "q">>>>),
     Some(<<<<"0", "q">>, <<"5", "p">>>>)}

NextEdit ==
    \/ \E path \in {<<>>, <<Root>>}, pattern \in {<<>>, <<"p">>, <<"q">>} :
          add_group_by_args(TagG, path, pattern)
    \/ rm_group_by_args(<<TagG>>)
    \/ \E t \in EditTags, pattern \in {<<"p">>, <<"0">>} :
          del_group_by_args(t, <<>>, pattern)
    \/ \E oldtag \in EditTags : mv_group_by_args(oldtag, TagG)
    \/ \E t \in EditTags, indices \in SeqsUpTo(0..MaxPatterns, MaxPatterns) :
          arrange_group_by_args(t, indices)
    \/ \E t \in EditTags, end \in {None, Some("end")}, pattern \in EditPatternArgs :
          config_group_by_args(t, None, end, None, FALSE, FALSE, None, None, pattern)

SpecEdit == InitEmpty /\ [][NextEdit]_vars

\* runs of config -x / -i on two groups, from the empty config: a name
\* alone, two names in both orders, a name given twice
NameArgs ==
    {None, Some(<<NameAA>>), Some(<<NameB>>), Some(<<NameAA, NameB>>),
     Some(<<NameB, NameAA>>), Some(<<NameAA, NameAA>>)}

NextNames ==
    \/ \E t \in {TagG, TagH} : add_group_by_args(t, <<>>, <<>>)
    \/ \E t \in {TagG, TagH}, exclude \in NameArgs, include \in NameArgs :
          config_group_by_args(t, None, None, None, FALSE, FALSE, exclude, include, None)

SpecNames == InitEmpty /\ [][NextNames]_vars

\* the scan of one identity whose files may share a modification time: every
\* pattern list, files a second apart or written within the same second; the
\* file loop takes its next turn, and the code after it runs, whenever it can
ScanTexts == {<<>>, <<"DONE">>, <<"loss">>, <<"DONE", "loss">>}

ScanMtimes == {Now - TicksPerSec, Now - 2 * TicksPerSec}

ScanDescrs ==
    UNION {[1..k -> [name : {NameA}, mtime : ScanMtimes, keys : ScanTexts]]
              : k \in 1..MaxFiles}

ScanDisks == {(Root :> MkFiles(d)) : d \in ScanDescrs}

InitScan == InitPass(ProbeCfgs, ScanDisks, {StatusCall({}, None)})

SpecScan ==
    /\ InitScan
    /\ [][NextPass]_vars
    /\ WF_vars(group_panel_view_read)
    /\ WF_vars(group_panel_view_classify)

----------------------------------------------------------------------------
(* Vocabulary of the claims *)

RecsOf(f) == IF f \in DOMAIN recs THEN recs[f] ELSE <<>>

\* the identity n has a record in the bucket of flag f
InBucket(f, n) == \E i \in 1..Len(RecsOf(f)) : RecsOf(f)[i].name = n

\* the identity `one` has been scanned and classified: fns, patterns, found
\* and reads are those of its scan
Classified == pc = "keys" /\ one # NoName /\ (InBucket(0, one) \/ InBucket(1, one))

\* the pattern p matches the k-th newest file of the identity
MatchesFile(p, k) == findall(p, fns[k].text) # <<>>

\* the scan indices (1-based) among the first n files where p matches
MatchingUpTo(p, n) == {k \in 1..n : MatchesFile(p, k)}


terminationToken == cfg.activated_groups[tag].ending

AllResolved == \A i \in 1..Len(patterns) : patterns[i] \in DOMAIN found

----------------------------------------------------------------------------
(* C1: if the termination token matches the newest file of an identity, the *)
(* identity is classified terminal (it is put in the ended bucket, flag 1), *)
(* whatever the pattern list of the group.                                   *)
C1_TerminationPrecedence ==
    (Classified /\ MatchesFile(terminationToken, 1)) => InBucket(1, one)

(* C2: the value resolved for the termination pattern is the scan index of  *)
(* the newest file in which the token matches (an index, never matched      *)
(* text); it is absent when the token matches in no file; and the identity  *)
(* is classified terminal exactly when that index is 0, ongoing otherwise.  *)
C2_TerminationValueIsScanIndex ==
    Classified =>
        LET m == MatchingUpTo(terminationToken, Len(fns)) IN
        /\ m = {} => terminationToken \notin DOMAIN found
        /\ m # {} => /\ terminationToken \in DOMAIN found
                     /\ found[terminationToken] = IdxVal(Min(m) - 1)
        /\ InBucket(1, one) <=> (m # {} /\ Min(m) = 1)
        /\ InBucket(0, one) <=> ~(m # {} /\ Min(m) = 1)

(* C3: recency priority. While an identity is scanned and once it is        *)
(* classified, every non-termination pattern P that matches one of the      *)
(* files read so far is resolved to a match found in the newest of them     *)
(* (no file where P matches has a later modification time), a pattern that  *)
(* matches none is unresolved; and a resolved value never changes while     *)
(* older files are read.                                                    *)
C3_ResolvedFromNewest ==
    (pc = "scan" \/ Classified) =>
        \A i \in 2..Len(patterns) :
            LET P == patterns[i]
                m == MatchingUpTo(P, ptr + 1)
            IN /\ m = {} => P \notin DOMAIN found
               /\ m # {} =>
                    /\ P \in DOMAIN found
                    /\ found[P].text \in Range(findall(P, fns[Min(m)].text))
                    /\ \A j \in MatchingUpTo(P, Len(fns)) :
                           fns[j].mtime <= fns[Min(m)].mtime
               /\ (Classified /\ m = {}) => MatchingUpTo(P, Len(fns)) = {}

C3_ResolvedStays ==
    pc = "scan" =>
        \A P \in DOMAIN found : P \in DOMAIN found' /\ found'[P] = found[P]

C3_RecencyPriority == []C3_ResolvedFromNewest /\ [][C3_ResolvedStays]_vars

\* a pattern resolved from the second file read although the first was read
C3_Witness ==
    /\ Classified
    /\ \E i \in 2..Len(patterns) :
          /\ patterns[i] \in DOMAIN found
          /\ MatchingUpTo(patterns[i], Len(fns)) = {1, 2}
          /\ fns[1].mtime > fns[2].mtime

(* C4: last match wins. The value resolved for a non-termination pattern is *)
(* the last match of the pattern in the file it is resolved from (the       *)
(* newest file where it matches), however many matches that file holds.     *)
C4_LastMatchWins ==
    (pc = "scan" \/ Classified) =>
        \A i \in 2..Len(patterns) :
            LET P == patterns[i]
                m == MatchingUpTo(P, ptr + 1)
            IN m # {} =>
                 /\ P \in DOMAIN found
                 /\ found[P] = TextVal(Last(findall(P, fns[Min(m)].text)))

\* a pattern resolved from a file that holds two matches of it
C4_Witness ==
    /\ Classified
    /\ \E i \in 2..Len(patterns) :
          /\ patterns[i] \in DOMAIN found
          /\ Len(findall(patterns[i], fns[1].text)) >= 2

(* C5: early exit. Once every pattern of the effective list is resolved, no *)
(* further file of the identity is opened.                                   *)
C5_NoReadOnceResolved ==
    (pc = "scan" /\ AllResolved) => reads' = reads

C5_EarlyExit == [][C5_NoReadOnceResolved]_vars

\* an identity classified with every pattern resolved and a file left unread
C5_Witness ==
    /\ Classified
    /\ AllResolved
    /\ Len(reads) < Len(fns)

----------------------------------------------------------------------------
(* Vocabulary of the claims about the filter and the buckets *)

\* group_panel_view has returned for the group `tag`: recs is its result
GroupDone == pc \in {"tags", "done"} /\ tag # NoName

HasRec(n) == InBucket(0, n) \/ InBucket(1, n)

RecCount(n) ==
    Cardinality({<<f, i>> \in {0, 1} \X (1..MaxFiles + 1) :
                    i <= Len(RecsOf(f)) /\ RecsOf(f)[i].name = n})

\* the latest modification time among the files of the identity n
NewestMtime(n) ==
    LET t == {logs[n][i].mtime : i \in 1..Len(logs[n])}
    IN CHOOSE x \in t : \A y \in t : y <= x

\* idle time of the identity n, in ticks
IdleTicks(n) == now - NewestMtime(n)

item_of_tag == cfg.activated_groups[tag]

Included(n) == n \in Range(item_of_tag.included)
Excluded(n) == n \in Range(item_of_tag.excluded)

----------------------------------------------------------------------------
(* C6, as claimed: in a status pass an identity is dropped if and only if   *)
(* it is excluded, or a duration threshold is set, its idle time (now minus *)
(* the newest file's modification time) strictly exceeds the threshold, and *)
(* it is not included.                                                      *)
C6_DropIffIdleExceeds ==
    (GroupDone /\ call.op = "status") =>
        \A n \in DOMAIN logs :
            ~HasRec(n) <=>
                \/ Excluded(n)
                \/ /\ call.duration.set
                   /\ IdleTicks(n) > call.duration.v * TicksPerSec
                   /\ ~Included(n)

(* C6, amended: ... its idle time in whole seconds, the fraction of a       *)
(* second discarded, strictly exceeds the threshold, and it is not          *)
(* included. An identity idle for the threshold and a fraction of a second  *)
(* is kept.                                                                 *)
C6_DropIffWholeSecondsExceed ==
    (GroupDone /\ call.op = "status") =>
        \A n \in DOMAIN logs :
            ~HasRec(n) <=>
                \/ Excluded(n)
                \/ /\ call.duration.set
                   /\ IdleTicks(n) >= (call.duration.v + 1) * TicksPerSec
                   /\ ~Included(n)

\* an over-age identity dropped, and an over-age included identity kept
C6_Witness ==
    /\ GroupDone
    /\ call.op = "status"
    /\ call.duration.set
    /\ \E n \in DOMAIN logs :
          /\ IdleTicks(n) >= (call.duration.v + 1) * TicksPerSec
          /\ \/ ~Included(n) /\ ~Excluded(n) /\ ~HasRec(n)
             \/ Included(n) /\ ~Excluded(n) /\ HasRec(n)

(* C7: exclude overrides include. In a status pass an identity that is in   *)
(* both the included and the excluded list of the group has no record,      *)
(* whatever its idle time and whatever config commands came before.         *)
C7_ExcludeOverridesInclude ==
    (GroupDone /\ call.op = "status") =>
        \A n \in DOMAIN logs : (Included(n) /\ Excluded(n)) => ~HasRec(n)

\* a young identity listed in both sets, dropped
C7_Witness ==
    /\ GroupDone
    /\ call.op = "status"
    /\ \E n \in DOMAIN logs :
          /\ Included(n)
          /\ Excluded(n)
          /\ IdleTicks(n) <= DaySecs * TicksPerSec
          /\ ~HasRec(n)

(* C8: inspect bypass. In an inspect call an identity has a record if and   *)
(* only if it is the identity asked for, whatever the included and excluded *)
(* lists and its age; that record carries all the files of the identity,    *)
(* newest first.                                                            *)
C8_InspectBypass ==
    (GroupDone /\ call.op = "inspect") =>
        \A n \in DOMAIN logs :
            /\ HasRec(n) <=> n = call.name
            /\ \A f \in {0, 1} : \A i \in 1..Len(RecsOf(f)) :
                  RecsOf(f)[i].name = n =>
                      LET files == RecsOf(f)[i].files IN
                      /\ Len(files) = Len(logs[n])
                      /\ Range(files) = Range(logs[n])
                      /\ \A j \in 1..Len(files) - 1 :
                            files[j].mtime >= files[j + 1].mtime

\* an excluded, over-age identity inspected: shown, with its two files of
\* different ages
C8_Witness ==
    /\ GroupDone
    /\ call.op = "inspect"
    /\ Excluded(call.name)
    /\ call.name \in DOMAIN logs
    /\ HasRec(call.name)
    /\ IdleTicks(call.name) > DaySecs * TicksPerSec
    /\ Len(logs[call.name]) = 2
    /\ logs[call.name][1].mtime < logs[call.name][2].mtime

----------------------------------------------------------------------------
(* Vocabulary of the claims about the result of a whole call *)

LogsOf(t) ==
    build_logs(cfg.activated_groups[t].fnp, cfg.activated_groups[t].paths, disk)

\* the identity n of the group t, whose files L groups by identity, is
\* terminal: its termination pattern is resolved with value 0
TerminalOf(L, t, n) ==
    LET pats == effective_patterns(cfg.activated_groups[t])
        found_n == probe(-1, <<>>, Len(pats), sorted_by_mtime(L[n]), pats)
    IN pats[1] \in DOMAIN found_n /\ found_n[pats[1]] = IdxVal(0)

\* the identity n of the group t passes the filter of the call
KeptOf(L, t, n) ==
    ~filtered(n, Trunc(now - sorted_by_mtime(L[n])[1].mtime, TicksPerSec),
              duration_arg, inspect_arg, cfg.activated_groups[t])

\* the records of the identity n of the group t in a bucket of the call
Places(bucket, t, n) ==
    {<<e, i>> \in (1..2) \X (1..MaxFiles + 1) :
        /\ e <= Len(bucket)
        /\ bucket[e].tag = t
        /\ i <= Len(bucket[e].view)
        /\ bucket[e].view[i].name = n}

Ascending(view) ==
    \A i \in 1..Len(view) - 1 : StrLess(view[i].name, view[i + 1].name)

----------------------------------------------------------------------------
(* C9: every record of the ended bucket is of a terminal identity, every    *)
(* record of the ongoing bucket of one that is not; within a group's entry  *)
(* of a bucket the records are in ascending order of identity; and every    *)
(* identity that passed the filter has exactly one record, in one bucket.   *)
(* The records of a group are looked at when its scan has returned, the     *)
(* only time they are added, against the grouping logs of that scan.        *)
C9_Buckets ==
    /\ \A e \in 1..Len(ret_str_ended) : Ascending(ret_str_ended[e].view)
    /\ \A e \in 1..Len(ret_str_ongoing) : Ascending(ret_str_ongoing[e].view)
    /\ GroupDone =>
          /\ \A e \in 1..Len(ret_str_ended) :
                ret_str_ended[e].tag = tag =>
                    \A i \in 1..Len(ret_str_ended[e].view) :
                        TerminalOf(logs, tag, ret_str_ended[e].view[i].name)
          /\ \A e \in 1..Len(ret_str_ongoing) :
                ret_str_ongoing[e].tag = tag =>
                    \A i \in 1..Len(ret_str_ongoing[e].view) :
                        ~TerminalOf(logs, tag, ret_str_ongoing[e].view[i].name)
          /\ \A n \in DOMAIN logs :
                KeptOf(logs, tag, n) =>
                    /\ Cardinality(Places(ret_str_ended, tag, n)
                                     \cup Places(ret_str_ongoing, tag, n)) = 1
                    /\ (Places(ret_str_ended, tag, n) = {}
                          \/ Places(ret_str_ongoing, tag, n) = {})

\* a call that ended with two identities in one bucket, found on disk in
\* descending order of name, and a record in the other bucket
C9_Witness ==
    /\ pc = "done"
    /\ ret_str_ended # <<>>
    /\ \E e \in 1..Len(ret_str_ongoing) :
          /\ Len(ret_str_ongoing[e].view) = 2
          /\ disk[Root][1].path = ret_str_ongoing[e].view[2].name \o DotL

(* C10: every identity that passes the filter has exactly one record when   *)
(* the group is done (and a filtered one none); an identity none of whose   *)
(* files matches any pattern has had all its files read, has nothing        *)
(* resolved, and its record is in the ongoing bucket with no values.        *)
C10_RecordForEveryKeptIdentity ==
    /\ GroupDone =>
          \A n \in DOMAIN logs :
              RecCount(n) = IF KeptOf(logs, tag, n) THEN 1 ELSE 0
    /\ (Classified
          /\ \A k \in 1..Len(fns) : \A i \in 1..Len(patterns) :
                ~MatchesFile(patterns[i], k))
       => /\ found = <<>>
          /\ Len(reads) = Len(fns)
          /\ ~InBucket(1, one)
          /\ \E i \in 1..Len(RecsOf(0)) :
                RecsOf(0)[i].name = one /\ RecsOf(0)[i].values = <<>>

\* a classified identity with two files, neither matching any pattern
C10_Witness ==
    /\ Classified
    /\ Len(fns) = 2
    /\ \A k \in 1..Len(fns) : \A i \in 1..Len(patterns) :
          ~MatchesFile(patterns[i], k)
    /\ InBucket(0, one)

----------------------------------------------------------------------------
(* Vocabulary of the claims on match_file *)

\* the tag whose files the walk has been through: the tag of the scan, or
\* the tag at which match_file raised
WalkedTag == IF pc = "raised" /\ err = "KeyError" THEN Head(tagq) ELSE tag

Walked == WalkedTag \in DOMAIN cfg.activated_groups

WalkedFnp == cfg.activated_groups[WalkedTag].fnp

WalkedFiles == walk(cfg.activated_groups[WalkedTag].paths, disk)

\* the buckets of logs that hold the file f
BucketsOf(f) ==
    IF pc = "raised" THEN {} ELSE {n \in DOMAIN logs : f \in Range(logs[n])}

\* the positions of the text '{name}' in a template
NameFieldAt(fnp) ==
    {i \in 1..Len(fnp) - 5 : SubSeq(fnp, i, i + 5) = NameField}

\* the template is literal text around one placeholder '{name}'
OnePlaceholder(fnp) ==
    /\ Cardinality(NameFieldAt(fnp)) = 1
    /\ Cardinality({i \in 1..Len(fnp) : fnp[i] = LBrace}) = 1
    /\ Cardinality({i \in 1..Len(fnp) : fnp[i] = RBrace}) = 1

PrefixOf(fnp) == SubSeq(fnp, 1, Min(NameFieldAt(fnp)) - 1)
SuffixOf(fnp) == SubSeq(fnp, Min(NameFieldAt(fnp)) + 6, Len(fnp))

\* the literal text a template ends with: what follows its last '}'
LiteralSuffix(fnp) ==
    LET closes == {i \in 1..Len(fnp) : fnp[i] = RBrace}
        from == IF closes = {} THEN 1 ELSE -Min({-i : i \in closes}) + 1
    IN SubSeq(fnp, from, Len(fnp))

EndsWith(s, x) ==
    Len(s) >= Len(x) /\ SubSeq(s, Len(s) - Len(x) + 1, Len(s)) = x

StartsWith(s, x) == Len(s) >= Len(x) /\ SubSeq(s, 1, Len(x)) = x

FoldStr(s) == [i \in 1..Len(s) |-> FoldChar(s[i])]

\* what a path built from the template has in the place of '{name}'
IdentityIn(fnp, path) ==
    SubSeq(path, Len(PrefixOf(fnp)) + 1, Len(path) - Len(SuffixOf(fnp)))

\* the path is the template with the non-empty identity I in the place of
\* '{name}', and I has none of the characters of the template's literals
BuiltFrom(fnp, path, I) ==
    /\ OnePlaceholder(fnp)
    /\ I # <<>>
    /\ path = PrefixOf(fnp) \o I \o SuffixOf(fnp)
    /\ Range(I) \cap (Range(PrefixOf(fnp)) \cup Range(SuffixOf(fnp))) = {}

----------------------------------------------------------------------------
(* C11: a file whose path is a one-placeholder template with an identity I  *)
(* (not empty, free of the characters of the template's literals) in the    *)
(* place of '{name}' matches, and is put in the bucket of exactly I.        *)
C11_RoundTrip ==
    Walked =>
        \A k \in 1..Len(WalkedFiles) :
            LET f == WalkedFiles[k]
                I == IdentityIn(WalkedFnp, f.path)
            IN (OnePlaceholder(WalkedFnp) /\ BuiltFrom(WalkedFnp, f.path, I)) =>
                   /\ pc # "raised"
                   /\ BucketsOf(f) = {I}

\* the file 'aL.l' grouped under the template '{name}.l', and 'aL.l' under
\* 'a{name}.l'
C11_Witness ==
    /\ Walked
    /\ pc = "done"
    /\ WalkedFiles[1].path = Str(<<"a", "L", ".", "l">>)
    /\ OnePlaceholder(WalkedFnp)
    /\ BuiltFrom(WalkedFnp, WalkedFiles[1].path,
                 IdentityIn(WalkedFnp, WalkedFiles[1].path))

(* C12, as claimed: a file whose path does not end with the literal text    *)
(* the template ends with is no match, and is in no bucket.                 *)
C12_NoMatchOnForeignSuffix ==
    Walked =>
        \A k \in 1..Len(WalkedFiles) :
            ~EndsWith(WalkedFiles[k].path, LiteralSuffix(WalkedFnp)) =>
                /\ ~match_file(WalkedFnp, WalkedFiles[k].path).ok
                /\ BucketsOf(WalkedFiles[k]) = {}

(* C12, amended: a file whose path does not end, letter case ignored, with  *)
(* the literal text the template ends with is no match, and is in no        *)
(* bucket. ('a.L' matches '{name}.l'.)                                      *)
C12_NoMatchOnForeignSuffixIgnoringCase ==
    Walked =>
        \A k \in 1..Len(WalkedFiles) :
            ~EndsWith(FoldStr(WalkedFiles[k].path),
                      FoldStr(LiteralSuffix(WalkedFnp))) =>
                /\ ~match_file(WalkedFnp, WalkedFiles[k].path).ok
                /\ ~match_file(WalkedFnp, WalkedFiles[k].path).raised
                /\ BucketsOf(WalkedFiles[k]) = {}

\* the pass over the file 'a.la' under the template '{name}.l' has ended
C12_Witness ==
    /\ Walked
    /\ pc = "done"
    /\ WalkedFnp = NameField \o DotL
    /\ WalkedFiles[1].path = Str(<<"a", ".", "l", "a">>)
    /\ logs = <<>>

(* C13: match_file never raises: no walk ends in the KeyError of a template *)
(* without a placeholder, or with a placeholder not named 'name'.           *)
C13_MatcherNeverRaises ==
    Walked =>
        \A k \in 1..Len(WalkedFiles) :
            ~match_file(WalkedFnp, WalkedFiles[k].path).raised

----------------------------------------------------------------------------
(* C14: a file that cannot be read is skipped: no scan ends in the error of *)
(* open(), and the call ends with a record for every identity.              *)
C14_UnreadableSkipped ==
    /\ ~(pc = "raised" /\ err = "OSError")
    /\ pc = "done" => \A n \in DOMAIN logs : HasRec(n)

----------------------------------------------------------------------------
(* C15: a status call that names tags ends without an error whether or not  *)
(* the config holds them; when it ends, every identity that passes the      *)
(* filter, of every activated group it names, has its record in a bucket,   *)
(* and no group it does not name has one.                                   *)
C15_NamedGroupsReported ==
    call.op = "status" =>
        /\ pc # "raised"
        /\ pc = "done" =>
              \A t \in DOMAIN cfg.activated_groups :
                  IF call.tags = {} \/ t \in call.tags
                  THEN LET L == LogsOf(t) IN
                       \A n \in DOMAIN L :
                           KeptOf(L, t, n) =>
                               Cardinality(Places(ret_str_ended, t, n)
                                             \cup Places(ret_str_ongoing, t, n)) = 1
                  ELSE /\ \A e \in 1..Len(ret_str_ended) : ret_str_ended[e].tag # t
                       /\ \A e \in 1..Len(ret_str_ongoing) : ret_str_ongoing[e].tag # t

\* a call naming TagG and the unknown TagU, of a config that also holds
\* TagH, has ended with TagG reported
C15_Witness ==
    /\ pc = "done"
    /\ call.op = "status"
    /\ call.tags = {TagG, TagU}
    /\ DOMAIN cfg.activated_groups = {TagG, TagH}
    /\ \E e \in 1..Len(ret_str_ongoing) :
          ret_str_ongoing[e].tag = TagG /\ Len(ret_str_ongoing[e].view) = 2

----------------------------------------------------------------------------
(* C17: the pattern list of a scan is the termination pattern, then (only   *)
(* when the builtins are enabled) epoch, iter, loss, eta, then the user     *)
(* patterns in their stored order; the values shown for an identity are the *)
(* resolved values of the entries after the first, in the order of the      *)
(* list; and no step of the pass changes the stored groups.                 *)
BuiltinCount == IF item_of_tag.builtin_func THEN 4 ELSE 0

\* the positions after the first of the pattern list whose pattern is
\* resolved
ResolvedAt == {i \in 2..Len(patterns) : patterns[i] \in DOMAIN found}

\* the k-th least of a set of integers
Kth(S, k) == CHOOSE i \in S : Cardinality({j \in S : j <= i}) = k

C17_ListOrder ==
    pc = "scan" =>
        /\ Len(patterns) = 1 + BuiltinCount + Len(item_of_tag.patterns)
        /\ patterns[1] = item_of_tag.ending
        /\ item_of_tag.builtin_func =>
              /\ patterns[2] = "epoch"
              /\ patterns[3] = "iter"
              /\ patterns[4] = "loss"
              /\ patterns[5] = "eta"
        /\ \A i \in 1..Len(item_of_tag.patterns) :
              patterns[1 + BuiltinCount + i] = item_of_tag.patterns[i]

C17_DisplayOrder ==
    Classified =>
        \A f \in {0, 1} : \A r \in 1..Len(RecsOf(f)) :
            RecsOf(f)[r].name = one =>
                /\ Len(RecsOf(f)[r].values) = Cardinality(ResolvedAt)
                /\ \A k \in 1..Len(RecsOf(f)[r].values) :
                      RecsOf(f)[r].values[k] = found[patterns[Kth(ResolvedAt, k)]]

C17_EffectivePatternOrder ==
    /\ [](C17_ListOrder /\ C17_DisplayOrder)
    /\ [][cfg' = cfg]_vars

\* an identity shown with two different values, of the user patterns 'done'
\* and 'loss' in that order, the builtins disabled
C17_Witness ==
    /\ Classified
    /\ ~item_of_tag.builtin_func
    /\ item_of_tag.patterns = <<"done", "loss">>
    /\ \E r \in 1..Len(RecsOf(0)) :
          /\ RecsOf(0)[r].name = one
          /\ Len(RecsOf(0)[r].values) = 2
          /\ RecsOf(0)[r].values[1] # RecsOf(0)[r].values[2]

----------------------------------------------------------------------------
(* Vocabulary of the claims on the commands *)

Act == cfg.activated_groups
Deact == cfg.deactivated_groups

\* the step is a run of the command op
Ran(op) == call'.op = op

(* C16: rm of one tag: an activated group becomes a deactivated group with  *)
(* the same configuration and is no longer activated; a group that is only  *)
(* deactivated is deleted; an unknown tag changes nothing. An add (with no  *)
(* path and no pattern) of a tag that is deactivated makes it the activated *)
(* group with exactly the configuration that was deactivated.               *)
C16_RmStep ==
    (Ran("rm") /\ Len(call'.tag) = 1) =>
        LET t == call'.tag[1] IN
        IF t \in DOMAIN Act
        THEN /\ t \notin DOMAIN Act'
             /\ t \in DOMAIN Deact'
             /\ Deact'[t] = Act[t]
        ELSE IF t \in DOMAIN Deact
        THEN t \notin DOMAIN Deact' /\ t \notin DOMAIN Act'
        ELSE cfg' = cfg

C16_AddStep ==
    (Ran("add") /\ call'.path = <<>> /\ call'.pattern = <<>>
       /\ call'.tag \in DOMAIN Deact) =>
        /\ call'.tag \in DOMAIN Act'
        /\ Act'[call'.tag] = Deact[call'.tag]
        /\ call'.tag \notin DOMAIN Deact'

C16_RmThenAddRestores == [][C16_RmStep /\ C16_AddStep]_vars

(* C18: rename old new: ValueError when new is an activated tag; otherwise  *)
(* KeyError when old is not; otherwise new is an activated tag with old's   *)
(* former configuration, old is not activated, and every other group,       *)
(* activated or deactivated, is as it was.                                  *)
C18_RenameStep ==
    Ran("rename") =>
        LET old == call'.oldtag
            new == call'.newtag
        IN IF new \in DOMAIN Act THEN err' = "ValueError"
           ELSE IF old \notin DOMAIN Act THEN err' = "KeyError"
           ELSE /\ err' = ""
                /\ DOMAIN Act' = (DOMAIN Act \ {old}) \cup {new}
                /\ Act'[new] = Act[old]
                /\ \A t \in DOMAIN Act \ {old} : Act'[t] = Act[t]
                /\ Deact' = Deact

C18_Rename == [][C18_RenameStep]_vars

\* a rename has run without error beside another activated group and a
\* deactivated one, and has moved a group that has a pattern
C18_Witness ==
    /\ call.op = "rename"
    /\ err = ""
    /\ Cardinality(DOMAIN Act) = 2
    /\ DOMAIN Deact # {}
    /\ Act[call.newtag].patterns # <<>>

----------------------------------------------------------------------------
(* C19: after every arrange that ends without error the pattern list of the *)
(* group is a permutation of the list before: the same length, every        *)
(* pattern as many times as before, the pattern that was at indices[k] now  *)
(* at k.                                                                    *)
CountIn(s, x) == Cardinality({i \in 1..Len(s) : s[i] = x})

C19_ArrangeStep ==
    (Ran("arrange") /\ err' = "") =>
        LET before == Act[call'.tag].patterns
            after == Act'[call'.tag].patterns
        IN /\ Len(after) = Len(before)
           /\ \A x \in Range(before) \cup Range(after) :
                 CountIn(after, x) = CountIn(before, x)
           /\ \A k \in 1..Len(call'.indices) :
                 after[k] = before[call'.indices[k] + 1]

C19_ArrangeOnlyReorders == [][C19_ArrangeStep]_vars

(* C20: a command that ends with a reported error leaves the stored config  *)
(* as it was before the command.                                            *)
C20_ErrorStep == err' # "" => cfg' = cfg

C20_StateUnchangedOnError == [][C20_ErrorStep]_vars

----------------------------------------------------------------------------
(* C21: tag uniqueness: from the empty config, after any run of add         *)
(* (activate), rm (deactivate) and rename (mv) no tag is at once an         *)
(* activated group and a deactivated group.                                 *)
C21_TagUnique == DOMAIN Act \cap DOMAIN Deact = {}

----------------------------------------------------------------------------
(* Vocabulary of C22 *)

NoDuplicates(q) == Cardinality(Range(q)) = Len(q)

\* the included and excluded lists of every activated group share no name
\* and hold no name twice
ListsDisjoint ==
    \A t \in DOMAIN Act :
        /\ Range(Act[t].included) \cap Range(Act[t].excluded) = {}
        /\ NoDuplicates(Act[t].included)
        /\ NoDuplicates(Act[t].excluded)

\* the names a config command gives to -x and to -i
Given(arg) == IF arg.set THEN Range(arg.v) ELSE {}

\* the step is a config command that ends without error
RanConfig == Ran("config") /\ err' = ""

\* C22 as stated: after every run of config commands on a fresh group the
\* included and excluded lists are disjoint and duplicate-free, every name
\* given to -x is out of included and every name given to -i is out of
\* excluded.
C22_StepAsStated ==
    RanConfig =>
        /\ Given(call'.exclude) \cap Range(Act'[call'.tag].included) = {}
        /\ Given(call'.include) \cap Range(Act'[call'.tag].excluded) = {}

C22_IncludeExcludeDisjoint == []ListsDisjoint /\ [][C22_StepAsStated]_vars

(* C22, amended: after every run of config commands on a fresh group the    *)
(* included and excluded lists are disjoint and duplicate-free; every name  *)
(* given to -i is in included and out of excluded; every name given to -x   *)
(* and not to -i in the same command is in excluded and out of included     *)
(* (include is applied after exclude: a name given to both ends included);  *)
(* every other name stays where it was.                                     *)
C22_StepIncludeLast ==
    RanConfig =>
        LET x == Given(call'.exclude) \ Given(call'.include)
            i == Given(call'.include)
            before == Act[call'.tag]
            after == Act'[call'.tag]
        IN /\ Range(after.included) = (Range(before.included) \ x) \cup i
           /\ Range(after.excluded) = (Range(before.excluded) \cup x) \ i

C22_IncludeAppliedLast == []ListsDisjoint /\ [][C22_StepIncludeLast]_vars

\* a config has been given one name for both -x and -i and another for -x
\* alone: the first is included, the second excluded
C22_Witness ==
    /\ call.op = "config"
    /\ err = ""
    /\ Given(call.exclude) \cap Given(call.include) # {}
    /\ Given(call.exclude) \ Given(call.include) # {}
    /\ Range(Act[call.tag].included) = Given(call.include)
    /\ Range(Act[call.tag].excluded) = Given(call.exclude) \ Given(call.include)

----------------------------------------------------------------------------
(* Vocabulary of C23 *)

\* the file loop of one identity is at its while test
InScan == pc = "scan"

\* the entries of the effective pattern list whose pattern is not resolved
UnresolvedEntries == {i \in 1..Len(patterns) : patterns[i] \notin DOMAIN found}

\* os.path.getmtime of the file read k-th
ReadMtime(k) == disk[Root][reads[k]].mtime

\* the reads so far are the first files of the sorted list, one read each
ReadsFollowSortedList ==
    /\ Len(reads) = ptr + 1
    /\ Len(reads) <= Len(fns)
    /\ \A k \in 1..Len(reads) : reads[k] = fns[k].fn
    /\ \A j, k \in 1..Len(reads) : j # k => reads[j] # reads[k]

CounterIsUnresolved == remain = Cardinality(UnresolvedEntries)

\* a turn of the file loop reads one more file
OneMoreRead == (InScan /\ reads' # reads) => Len(reads') = Len(reads) + 1

ScanEnds == InScan ~> ~InScan

\* C23 as stated: the scan of one identity terminates; each file read has a
\* modification time strictly earlier than the file read before it, no file
\* is read twice, at most len(files) reads occur; at every loop iteration
\* remain is the number of unresolved entries of the effective pattern list.
C23_StrictlyDescending ==
    InScan =>
        /\ ReadsFollowSortedList
        /\ CounterIsUnresolved
        /\ \A k \in 2..Len(reads) : ReadMtime(k) < ReadMtime(k - 1)

C23_ScanTerminatesStrict ==
    []C23_StrictlyDescending /\ [][OneMoreRead]_vars /\ ScanEnds

(* C23, amended: the scan of one identity terminates; the files are read in *)
(* the order of the list sorted by modification time, newest first: no file *)
(* read is newer than the file read before it (files of equal modification  *)
(* time are read one after the other, in the order the walk met them), no   *)
(* file is read twice, at most len(files) reads occur; at every loop         *)
(* iteration remain is the number of unresolved entries of the effective     *)
(* pattern list.                                                             *)
C23_Descending ==
    InScan =>
        /\ ReadsFollowSortedList
        /\ CounterIsUnresolved
        /\ \A k \in 2..Len(reads) : ReadMtime(k) <= ReadMtime(k - 1)

C23_ScanTerminates ==
    []C23_Descending /\ [][OneMoreRead]_vars /\ ScanEnds

\* two files of one modification time have been read, in the order of the
\* walk, with some entries of the list resolved and some not, one pattern
\* held by two entries
C23_Witness ==
    /\ InScan
    /\ Len(reads) = 2
    /\ ReadMtime(1) = ReadMtime(2)
    /\ reads[1] < reads[2]
    /\ 0 < remain
    /\ remain < Len(patterns)
    /\ \E i, j \in 1..Len(patterns) :
          i # j /\ patterns[i] = patterns[j] /\ patterns[i] \in DOMAIN found

====
